---- MODULE Spec2Model ----
(***************************************************************************)
(* Semantic cache question answering: app.py (command-line run over a list *)
(* of questions) and stream.py (HTTP server, POST /ask).  Both programs    *)
(* talk to the same Pinecone index "semantic-cache-qa".                    *)
(*                                                                         *)
(* Scores are cosine similarities in hundredths (85 stands for 0.85).      *)
(* The Pinecone index is modelled as a strongly consistent map from vector *)
(* id to {values, metadata}; upsert overwrites by id, query returns the    *)
(* best scoring vector.                                                    *)
(***************************************************************************)
EXTENDS Integers, Sequences, FiniteSets, TLC

\* ------------------------------------------------------------------ bounds
MaxAsks == 3
MaxStarts == 2
MaxMessages == 6

\* --------------------------------------------------------------- constants
SimilarityThreshold == 85
SelfScore == 100
Null == -1

Procs == {"app", "stream"}
Questions == {"Q1", "Q2", "Q3"}
NoneQ == "None"
FallbackAnswer == "Sorry, I couldn't generate an answer at this time."
NoAnswer == ""
HashSeeds == {0, 1}

\* ------------------------------------------------- embedding and similarity
\* SentenceTransformer.encode(text).tolist(): a deterministic vector per text.
\* Vectors are named by a number; Cosine gives the metric of the index.
get_embedding(text) ==
    CASE text = "Q1" -> 11
      [] text = "Q2" -> 12
      [] text = "Q3" -> 13
      [] OTHER -> 0

\* create_index(dimension=384): the dimension of the index
IndexDimension == 384

\* a vector the embedder could give that has another dimension
WrongDimVector == 99

Dim(vector) == IF vector = WrongDimVector THEN IndexDimension - 1 ELSE IndexDimension

\* a slip: an index that takes vectors of any dimension
IndexAcceptsAny(vector) == TRUE

\* query and upsert are refused for a vector whose dimension is not the index's
IndexAccepts(vector) == Dim(vector) = IndexDimension

\* cosine metric of the index, in hundredths
Cosine(u, v) ==
    IF u = v THEN SelfScore
    ELSE CASE {u, v} = {11, 12} -> 91
           [] {u, v} = {12, 13} -> 88
           [] {u, v} = {11, 13} -> 85
           [] OTHER -> 0

\* self.llm.invoke(question).content when the call succeeds (temperature=0):
\* the answer text of a question
llm_invoke(text) ==
    CASE text = "Q1" -> "A1"
      [] text = "Q2" -> "A2"
      [] text = "Q3" -> "A3"
      [] OTHER -> NoAnswer

\* str(hash(question)): Python's string hash is salted per process, so the id
\* depends on the process's hash seed and on the text.  Collisions of two
\* different texts under one seed (probability 2^-64) are left out.
PyHash(hashSeed, text) == <<hashSeed, text>>

NoId == <<Null, NoneQ>>

\* ----------------------------------------------------------------- results
ErrorResult ==
    [kind |-> "error", source |-> "none", answer |-> NoAnswer,
     similarity |-> Null, matched_question |-> NoneQ, timestamp |-> Null]

NoResult ==
    [kind |-> "none", source |-> "none", answer |-> NoAnswer,
     similarity |-> Null, matched_question |-> NoneQ, timestamp |-> Null]

\* the dict returned on a hit
CacheResult(m) ==
    [kind |-> "ok", source |-> "cache", answer |-> m.metadata.answer,
     similarity |-> m.score, matched_question |-> m.metadata.question,
     timestamp |-> m.metadata.timestamp]

\* a slip in the miss branch: the details of a hit are filled in
LlmResultWithDetails(ans, now) ==
    [kind |-> "ok", source |-> "llm", answer |-> ans,
     similarity |-> SelfScore, matched_question |-> NoneQ, timestamp |-> now]

\* the dict returned on a miss
LlmResult(ans, now) ==
    [kind |-> "ok", source |-> "llm", answer |-> ans,
     similarity |-> Null, matched_question |-> NoneQ, timestamp |-> now]

\* ------------------------------------------------------------------- index
\* a slip in the query: the worst scoring vector comes first
QueryWorst(idx, vector) ==
    IF DOMAIN idx = {} THEN {<< >>}
    ELSE {<<[id |-> i, score |-> Cosine(idx[i].values, vector),
            metadata |-> idx[i].metadata]>> :
            i \in {j \in DOMAIN idx :
                     \A k \in DOMAIN idx :
                        Cosine(idx[k].values, vector) >= Cosine(idx[j].values, vector)}}

\* a slip in the query: any stored vector may come first
QueryAny(idx, vector) ==
    IF DOMAIN idx = {} THEN {<< >>}
    ELSE {<<[id |-> i, score |-> Cosine(idx[i].values, vector),
            metadata |-> idx[i].metadata]>> : i \in DOMAIN idx}

\* index.query(vector, top_k=1, include_metadata=True): the possible values of
\* results.matches; with several best scoring vectors Pinecone returns one.
Query(idx, vector) ==
    IF DOMAIN idx = {} THEN {<< >>}
    ELSE {<<[id |-> i, score |-> Cosine(idx[i].values, vector),
            metadata |-> idx[i].metadata]>> :
            i \in {j \in DOMAIN idx :
                     \A k \in DOMAIN idx :
                        Cosine(idx[k].values, vector) <= Cosine(idx[j].values, vector)}}

\* a slip in find_similar_question: inclusive comparison
find_similar_question_inclusive(matches) ==
    IF Len(matches) > 0 /\ matches[1].score >= SimilarityThreshold
    THEN matches
    ELSE << >>

\* a slip in find_similar_question: comparison the wrong way round
find_similar_question_inverted(matches) ==
    IF Len(matches) > 0 /\ matches[1].score < SimilarityThreshold
    THEN matches
    ELSE << >>

\* the decision of find_similar_question: <<match>> or << >> (None)
find_similar_question(matches) ==
    IF Len(matches) > 0 /\ matches[1].score > SimilarityThreshold
    THEN matches
    ELSE << >>

\* a slip in the upsert: the index is replaced by the one new vector
UpsertReplacesAll(idx, id, values, metadata) ==
    [i \in {id} |-> [values |-> values, metadata |-> metadata]]

\* index.upsert(vectors=[{id, values, metadata}])
Upsert(idx, id, values, metadata) ==
    [i \in DOMAIN idx \cup {id} |->
        IF i = id THEN [values |-> values, metadata |-> metadata] ELSE idx[i]]

\* a slip in add_to_cache: every vector is written under one fixed id
add_to_cache_fixed_id(idx, hashSeed, q, ans, emb, now) ==
    Upsert(idx, PyHash(hashSeed, NoneQ), emb,
           [question |-> q, answer |-> ans, timestamp |-> now])

\* add_to_cache(question, answer, embedding)
add_to_cache(idx, hashSeed, q, ans, emb, now) ==
    Upsert(idx, PyHash(hashSeed, q), emb,
           [question |-> q, answer |-> ans, timestamp |-> now])

\* ------------------------------------------------------------------- state
VARIABLES
    pc,           \* position of each program
    seed,         \* hash seed of the running process
    sawIndex,     \* result of the list_indexes() membership test
    question,     \* argument of the ask in progress (or of the last one)
    embedding,    \* local of ask_question
    match,        \* local of ask_question: << >> or <<match>>
    answer,       \* local of ask_question
    calls,        \* collaborator calls of the ask, in order, with outcome
    result,       \* what the last ask gave back to its caller
    prev,         \* the ask before: question, result, id written
    written,      \* id upserted by the ask (NoId if none)
    index,        \* the Pinecone index: id -> [values, metadata]
    indexExists,  \* "semantic-cache-qa" is in list_indexes()
    creates,      \* successful create_index calls
    clock,        \* datetime.now()
    nAsks,
    nStarts,
    messages,              \* fronted.py: st.session_state.messages
    similarity_threshold,  \* fronted.py: the sidebar slider, in hundredths
    prompt,                \* fronted.py: the prompt being handled
    fe,                    \* fronted.py: "ready" or "posted" (inside requests.post)
    asked                  \* asks the server had begun when the prompt was posted

vars == <<pc, seed, sawIndex, question, embedding, match, answer, calls, result,
          prev, written, index, indexExists, creates, clock, nAsks, nStarts,
          messages, similarity_threshold, prompt, fe, asked>>

feVars == <<messages, similarity_threshold, prompt, fe, asked>>

\* st.slider(..., value=0.85)
SliderDefault == 85

\* values of the slider between min_value=0.7 and max_value=0.95
SliderValues == {70, SliderDefault, 90, 95}

\* the state of the frontend when its script first runs
FrontendInit ==
    /\ messages = << >>
    /\ similarity_threshold = SliderDefault
    /\ prompt = NoneQ
    /\ fe = "ready"
    /\ asked = 0

procVars == <<seed, sawIndex>>
askVars == <<question, embedding, match, answer, calls, result, prev, written>>

NoPrev == [question |-> NoneQ, source |-> "none", written |-> NoId]

Init ==
    /\ pc = [p \in Procs |-> "down"]
    /\ seed = [p \in Procs |-> Null]
    /\ sawIndex = [p \in Procs |-> FALSE]
    /\ question = [p \in Procs |-> NoneQ]
    /\ embedding = [p \in Procs |-> 0]
    /\ match = [p \in Procs |-> << >>]
    /\ answer = [p \in Procs |-> NoAnswer]
    /\ calls = [p \in Procs |-> << >>]
    /\ result = [p \in Procs |-> NoResult]
    /\ prev = [p \in Procs |-> NoPrev]
    /\ written = [p \in Procs |-> NoId]
    /\ index = << >>
    /\ indexExists = FALSE
    /\ creates = 0
    /\ clock = 0
    /\ nAsks = 0
    /\ nStarts = 0
    /\ FrontendInit

Call(op, ok) == [op |-> op, ok |-> ok]

\* the program whose code p runs: the app.py process, or stream.py (its
\* process, or one of the process's request handlers)
Program(p) == IF p = "app" THEN "app" ELSE "stream"

\* an exception leaves ask_question: app.py dies with the traceback,
\* stream.py's endpoint answers HTTP 500 and keeps serving
Raise(p) ==
    /\ pc' = [pc EXCEPT ![p] = IF Program(p) = "app" THEN "down" ELSE "idle"]
    /\ result' = [result EXCEPT ![p] = ErrorResult]

\* ----------------------------------------------------------------- startup
\* interpreter start and SemanticCacheQA.__init__ up to list_indexes().names()
Start(p) ==
    /\ pc[p] = "down"
    /\ nStarts < MaxStarts
    /\ nStarts' = nStarts + 1
    /\ \E s \in HashSeeds : seed' = [seed EXCEPT ![p] = s]
    /\ sawIndex' = [sawIndex EXCEPT ![p] = indexExists]
    /\ pc' = [pc EXCEPT ![p] = "init"]
    /\ UNCHANGED <<feVars, askVars, index, indexExists, creates, clock, nAsks>>

\* create_index when the name was absent, then pc.Index(name)
InitializeIndex(p) ==
    /\ pc[p] = "init"
    /\ IF sawIndex[p]
       THEN /\ pc' = [pc EXCEPT ![p] = "idle"]
            /\ UNCHANGED <<indexExists, creates>>
       ELSE IF indexExists
            THEN \* create_index of an existing name is refused: __init__ raises
                 /\ pc' = [pc EXCEPT ![p] = "down"]
                 /\ UNCHANGED <<indexExists, creates>>
            ELSE /\ indexExists' = TRUE
                 /\ creates' = creates + 1
                 /\ pc' = [pc EXCEPT ![p] = "idle"]
    /\ UNCHANGED <<feVars, procVars, askVars, index, clock, nAsks, nStarts>>

\* app.py: the loop over test_sets is finished
Exit(p) ==
    /\ p = "app"
    /\ pc[p] = "idle"
    /\ pc' = [pc EXCEPT ![p] = "down"]
    /\ UNCHANGED <<feVars, procVars, askVars, index, indexExists, creates, clock, nAsks, nStarts>>

\* --------------------------------------------------------------------- ask
BeginAsk(p, q) ==
    /\ pc[p] = "idle"
    /\ nAsks < MaxAsks
    /\ nAsks' = nAsks + 1
    /\ question' = [question EXCEPT ![p] = q]
    /\ prev' = [prev EXCEPT ![p] =
                  [question |-> question[p], source |-> result[p].source,
                   written |-> written[p]]]
    /\ match' = [match EXCEPT ![p] = << >>]
    /\ answer' = [answer EXCEPT ![p] = NoAnswer]
    /\ written' = [written EXCEPT ![p] = NoId]

\* ask_question(question): embedding = self.get_embedding(question)
Ask(p, q) ==
    /\ BeginAsk(p, q)
    /\ embedding' = [embedding EXCEPT ![p] = get_embedding(q)]
    /\ calls' = [calls EXCEPT ![p] = <<Call("embed", TRUE)>>]
    /\ result' = [result EXCEPT ![p] = NoResult]
    /\ pc' = [pc EXCEPT ![p] = "search"]
    /\ UNCHANGED <<feVars, procVars, index, indexExists, creates, clock, nStarts>>

\* the embedding model gives a vector of another dimension
AskEmbedWrongDim(p, q) ==
    /\ BeginAsk(p, q)
    /\ embedding' = [embedding EXCEPT ![p] = WrongDimVector]
    /\ calls' = [calls EXCEPT ![p] = <<Call("embed", TRUE)>>]
    /\ result' = [result EXCEPT ![p] = NoResult]
    /\ pc' = [pc EXCEPT ![p] = "search"]
    /\ UNCHANGED <<feVars, procVars, index, indexExists, creates, clock, nStarts>>

\* the embedding model raises
AskEmbedFails(p, q) ==
    /\ BeginAsk(p, q)
    /\ embedding' = [embedding EXCEPT ![p] = 0]
    /\ calls' = [calls EXCEPT ![p] = <<Call("embed", FALSE)>>]
    /\ Raise(p)
    /\ UNCHANGED <<feVars, procVars, index, indexExists, creates, clock, nStarts>>

\* a slip in the hit branch: the matched vector is written back with a new time
FindSimilarRefreshes(p) ==
    /\ pc[p] = "search"
    /\ \E matches \in Query(index, embedding[p]) :
          LET m == find_similar_question(matches) IN
          /\ match' = [match EXCEPT ![p] = m]
          /\ IF Len(m) > 0
             THEN /\ result' = [result EXCEPT ![p] = CacheResult(m[1])]
                  /\ index' = Upsert(index, m[1].id, embedding[p],
                                     [m[1].metadata EXCEPT !.timestamp = clock])
                  /\ pc' = [pc EXCEPT ![p] = "idle"]
             ELSE /\ result' = result
                  /\ index' = index
                  /\ pc' = [pc EXCEPT ![p] = "generate"]
    /\ calls' = [calls EXCEPT ![p] = Append(@, Call("search", TRUE))]
    /\ UNCHANGED <<feVars, procVars, question, embedding, answer, prev, written,
                   indexExists, creates, clock, nAsks, nStarts>>

\* match = self.find_similar_question(embedding); on a hit the result is returned
FindSimilar(p) ==
    /\ pc[p] = "search"
    /\ IndexAccepts(embedding[p])
    /\ \E matches \in Query(index, embedding[p]) :
          LET m == find_similar_question(matches) IN
          /\ match' = [match EXCEPT ![p] = m]
          /\ IF Len(m) > 0
             THEN /\ result' = [result EXCEPT ![p] = CacheResult(m[1])]
                  /\ pc' = [pc EXCEPT ![p] = "idle"]
             ELSE /\ result' = result
                  /\ pc' = [pc EXCEPT ![p] = "generate"]
    /\ calls' = [calls EXCEPT ![p] = Append(@, Call("search", TRUE))]
    /\ UNCHANGED <<feVars, procVars, question, embedding, answer, prev, written,
                   index, indexExists, creates, clock, nAsks, nStarts>>

\* a slip in the search error path: the failure is taken for a miss
FindSimilarFailsAsMiss(p) ==
    /\ pc[p] = "search"
    /\ calls' = [calls EXCEPT ![p] = Append(@, Call("search", FALSE))]
    /\ pc' = [pc EXCEPT ![p] = "generate"]
    /\ UNCHANGED <<feVars, procVars, question, embedding, match, answer, result, prev, written,
                   index, indexExists, creates, clock, nAsks, nStarts>>

\* a slip in the search error path: the query is tried again
FindSimilarFailsRetries(p) ==
    /\ pc[p] = "search"
    /\ Len(calls[p]) < 3
    /\ calls' = [calls EXCEPT ![p] = Append(@, Call("search", FALSE))]
    /\ UNCHANGED <<feVars, pc, procVars, question, embedding, match, answer, result, prev,
                   written, index, indexExists, creates, clock, nAsks, nStarts>>

\* index.query raises
FindSimilarFails(p) ==
    /\ pc[p] = "search"
    /\ calls' = [calls EXCEPT ![p] = Append(@, Call("search", FALSE))]
    /\ Raise(p)
    /\ UNCHANGED <<feVars, procVars, question, embedding, match, answer, prev, written,
                   index, indexExists, creates, clock, nAsks, nStarts>>

\* generate_answer(question): response = self.llm.invoke(question)
GenerateAnswer(p) ==
    /\ pc[p] = "generate"
    /\ answer' = [answer EXCEPT ![p] = llm_invoke(question[p])]
    /\ calls' = [calls EXCEPT ![p] = Append(@, Call("generate", TRUE))]
    /\ pc' = [pc EXCEPT ![p] = "cache"]
    /\ UNCHANGED <<feVars, procVars, question, embedding, match, result, prev, written,
                   index, indexExists, creates, clock, nAsks, nStarts>>

\* app.py generate_answer, except branch: the fallback text is returned
AppGenerateFails(p) ==
    /\ Program(p) = "app"
    /\ pc[p] = "generate"
    /\ answer' = [answer EXCEPT ![p] = FallbackAnswer]
    /\ calls' = [calls EXCEPT ![p] = Append(@, Call("generate", FALSE))]
    /\ pc' = [pc EXCEPT ![p] = "cache"]
    /\ UNCHANGED <<feVars, procVars, question, embedding, match, result, prev, written,
                   index, indexExists, creates, clock, nAsks, nStarts>>

\* stream.py generate_answer, except branch: raise HTTPException(500)
StreamGenerateFails(p) ==
    /\ Program(p) = "stream"
    /\ pc[p] = "generate"
    /\ calls' = [calls EXCEPT ![p] = Append(@, Call("generate", FALSE))]
    /\ Raise(p)
    /\ UNCHANGED <<feVars, procVars, question, embedding, match, answer, prev, written,
                   index, indexExists, creates, clock, nAsks, nStarts>>

\* self.add_to_cache(question, answer, embedding) and the return of the llm dict
AddToCache(p) ==
    /\ pc[p] = "cache"
    /\ IndexAccepts(embedding[p])
    /\ index' = add_to_cache(index, seed[p], question[p], answer[p], embedding[p], clock)
    /\ written' = [written EXCEPT ![p] = PyHash(seed[p], question[p])]
    /\ calls' = [calls EXCEPT ![p] = Append(@, Call("upsert", TRUE))]
    /\ result' = [result EXCEPT ![p] = LlmResult(answer[p], clock + 1)]
    /\ clock' = clock + 2
    /\ pc' = [pc EXCEPT ![p] = "idle"]
    /\ UNCHANGED <<feVars, procVars, question, embedding, match, answer, prev,
                   indexExists, creates, nAsks, nStarts>>

\* index.upsert raises
AddToCacheFails(p) ==
    /\ pc[p] = "cache"
    /\ calls' = [calls EXCEPT ![p] = Append(@, Call("upsert", FALSE))]
    /\ Raise(p)
    /\ UNCHANGED <<feVars, procVars, question, embedding, match, answer, prev, written,
                   index, indexExists, creates, clock, nAsks, nStarts>>

Next ==
    \E p \in Procs :
        \/ Start(p)
        \/ InitializeIndex(p)
        \/ Exit(p)
        \/ \E q \in Questions : Ask(p, q)
        \/ \E q \in Questions : AskEmbedFails(p, q)
        \/ \E q \in Questions : AskEmbedWrongDim(p, q)
        \/ FindSimilar(p)
        \/ FindSimilarFails(p)
        \/ GenerateAnswer(p)
        \/ AppGenerateFails(p)
        \/ StreamGenerateFails(p)
        \/ AddToCache(p)
        \/ AddToCacheFails(p)

Spec == Init /\ [][Next]_vars

\* ---------------------------------------------------------------- frontend
\* fronted.py, one script run per prompt, posting to the stream.py server
backendVars == <<pc, seed, sawIndex, question, embedding, match, answer, calls,
                 result, prev, written, index, indexExists, creates, clock,
                 nAsks, nStarts>>

KeyErrorText == "Error: 'answer'"
ConnectionErrorText == "Error: connection refused"

\* a slip in the details: the hit fields are copied whatever the source
details_always(response) ==
    [source |-> response.source, timestamp |-> response.timestamp,
     similarity |-> response.similarity,
     matched_question |-> response.matched_question]

\* details = {source, timestamp}, updated with the hit fields for source cache
details(response) ==
    IF response.source = "cache"
    THEN [source |-> response.source, timestamp |-> response.timestamp,
          similarity |-> response.similarity,
          matched_question |-> response.matched_question]
    ELSE [source |-> response.source, timestamp |-> response.timestamp]

UserMessage(text) == [role |-> "user", content |-> text]

\* the assistant message of the try branch
AnswerMessage(response) ==
    [role |-> "assistant", content |-> response.answer, details |-> details(response)]

\* the assistant message of the except branch
ErrorMessage(text) == [role |-> "assistant", content |-> text]

\* the server is up and the frontend script runs for the first time
InitFrontend ==
    /\ pc = [p \in Procs |-> IF p = "stream" THEN "idle" ELSE "down"]
    /\ seed = [p \in Procs |-> IF p = "stream" THEN 0 ELSE Null]
    /\ sawIndex = [p \in Procs |-> FALSE]
    /\ question = [p \in Procs |-> NoneQ]
    /\ embedding = [p \in Procs |-> 0]
    /\ match = [p \in Procs |-> << >>]
    /\ answer = [p \in Procs |-> NoAnswer]
    /\ calls = [p \in Procs |-> << >>]
    /\ result = [p \in Procs |-> NoResult]
    /\ prev = [p \in Procs |-> NoPrev]
    /\ written = [p \in Procs |-> NoId]
    /\ index = << >>
    /\ indexExists = TRUE
    /\ creates = 1
    /\ clock = 0
    /\ nAsks = 0
    /\ nStarts = 1
    /\ FrontendInit

\* the slider is moved between two prompts
FeSlide(v) ==
    /\ fe = "ready"
    /\ v # similarity_threshold
    /\ similarity_threshold' = v
    /\ UNCHANGED <<backendVars, messages, prompt, fe, asked>>

\* st.chat_input gives a prompt: the user message is appended and
\* requests.post(f"{backend_url}/ask", json={"question": prompt}) is sent
FeSubmit(text) ==
    /\ fe = "ready"
    /\ Len(messages) < MaxMessages
    /\ messages' = Append(messages, UserMessage(text))
    /\ prompt' = text
    /\ asked' = nAsks
    /\ fe' = "posted"
    /\ UNCHANGED <<backendVars, similarity_threshold>>

\* the posted request has not yet reached the server
Pending == fe = "posted" /\ nAsks = asked

\* the endpoint takes the request: qa_system.ask_question(request.question)
ServeAsk == Pending /\ Ask("stream", prompt)
ServeAskEmbedFails == Pending /\ AskEmbedFails("stream", prompt)
ServeAskEmbedWrongDim == Pending /\ AskEmbedWrongDim("stream", prompt)

\* the response has come back: .json(), then the try or the except branch
FeReceive ==
    /\ fe = "posted"
    /\ nAsks = asked + 1
    /\ pc["stream"] = "idle"
    /\ messages' = Append(messages,
                      IF result["stream"].kind = "ok"
                      THEN AnswerMessage(result["stream"])
                      ELSE ErrorMessage(KeyErrorText))
    /\ fe' = "ready"
    /\ UNCHANGED <<backendVars, similarity_threshold, prompt, asked>>

\* requests.post raises (server unreachable): the except branch
FeConnectionError ==
    /\ Pending
    /\ messages' = Append(messages, ErrorMessage(ConnectionErrorText))
    /\ fe' = "ready"
    /\ UNCHANGED <<backendVars, similarity_threshold, prompt, asked>>

NextFrontend ==
    \/ \E v \in SliderValues : FeSlide(v)
    \/ \E text \in Questions : FeSubmit(text)
    \/ ServeAsk
    \/ ServeAskEmbedFails
    \/ ServeAskEmbedWrongDim
    \/ FindSimilar("stream")
    \/ FindSimilarFails("stream")
    \/ GenerateAnswer("stream")
    \/ StreamGenerateFails("stream")
    \/ AddToCache("stream")
    \/ AddToCacheFails("stream")
    \/ FeReceive
    \/ FeConnectionError

SpecFrontend == InitFrontend /\ [][NextFrontend]_vars

\* ------------------------------------------------------------------ server
\* one stream.py process handling several POST /ask requests: the handlers are
\* coroutines of one event loop
Requests == {"r1", "r2"}

\* the server is up, no request has come
InitServer ==
    /\ pc = [r \in Requests |-> "idle"]
    /\ seed = [r \in Requests |-> 0]
    /\ sawIndex = [r \in Requests |-> FALSE]
    /\ question = [r \in Requests |-> NoneQ]
    /\ embedding = [r \in Requests |-> 0]
    /\ match = [r \in Requests |-> << >>]
    /\ answer = [r \in Requests |-> NoAnswer]
    /\ calls = [r \in Requests |-> << >>]
    /\ result = [r \in Requests |-> NoResult]
    /\ prev = [r \in Requests |-> NoPrev]
    /\ written = [r \in Requests |-> NoId]
    /\ index = << >>
    /\ indexExists = TRUE
    /\ creates = 1
    /\ clock = 0
    /\ nAsks = 0
    /\ nStarts = 1
    /\ FrontendInit

\* a slip: the collaborator calls are awaited, so a handler can start while
\* another is inside ask_question
LoopFreeAwaiting(r) == TRUE

\* the event loop can start handler r: ask_question is a coroutine without any
\* await, so a handler that has started runs to its return before the loop
\* takes another request
LoopFree(r) == \A o \in Requests \ {r} : pc[o] = "idle"

SrvAsk(r, q) == LoopFree(r) /\ Ask(r, q)
SrvAskEmbedFails(r, q) == LoopFree(r) /\ AskEmbedFails(r, q)
SrvAskEmbedWrongDim(r, q) == LoopFree(r) /\ AskEmbedWrongDim(r, q)

NextServer ==
    \E r \in Requests :
        \/ \E q \in Questions : SrvAsk(r, q)
        \/ \E q \in Questions : SrvAskEmbedFails(r, q)
        \/ \E q \in Questions : SrvAskEmbedWrongDim(r, q)
        \/ FindSimilar(r)
        \/ FindSimilarFails(r)
        \/ GenerateAnswer(r)
        \/ StreamGenerateFails(r)
        \/ AddToCache(r)
        \/ AddToCacheFails(r)

SpecServer == InitServer /\ [][NextServer]_vars

\* ------------------------------------------------------ auxiliary notions
Embedded(p) == get_embedding(question[p])

\* best score of the stored vectors against v; Null for an empty index
TopScore(idx, v) ==
    IF DOMAIN idx = {} THEN Null
    ELSE CHOOSE s \in {Cosine(idx[i].values, v) : i \in DOMAIN idx} :
            \A i \in DOMAIN idx : Cosine(idx[i].values, v) <= s

Called(p, op, ok) == \E k \in DOMAIN calls[p] : calls[p][k] = Call(op, ok)
CalledAfter(p, op, ok) == \E k \in DOMAIN calls'[p] : calls'[p][k] = Call(op, ok)

\* the step in which p's search call comes back
SearchStep(p) == pc[p] = "search" /\ CalledAfter(p, "search", TRUE)

\* the step in which p's upsert call comes back
UpsertStep(p) == pc[p] = "cache" /\ CalledAfter(p, "upsert", TRUE)

\* p's last ask has ended (returned or raised)
Ended(p) == result[p].kind # "none"

\* ------------------------------------------------------------------ claims

\* C1: an ask is a cache hit if and only if the index holds a vector and the
\* best score is strictly greater than the threshold; an empty result and a
\* best score at or below the threshold (also exactly equal to it) are misses
\* that go on to generate.
C1_HitIffAboveThreshold ==
    [][\A p \in Procs :
         SearchStep(p) =>
            /\ (result'[p].source = "cache") <=>
                  (/\ DOMAIN index # {}
                   /\ TopScore(index, Embedded(p)) > SimilarityThreshold)
            /\ (pc'[p] = "generate") <=>
                  (\/ DOMAIN index = {}
                   \/ TopScore(index, Embedded(p)) <= SimilarityThreshold)
            /\ (result'[p].source = "cache") # (pc'[p] = "generate")]_vars

\* C1 witness: a search missed with the best score exactly at the threshold
C1_Witness ==
    \E p \in Procs :
        /\ pc[p] = "generate"
        /\ DOMAIN index # {}
        /\ result[p].kind = "none"
        /\ \A q \in Procs \ {p} : question[q] = NoneQ
        /\ TopScore(index, Embedded(p)) = SimilarityThreshold

\* C2: every stored entry comes from an ask whose generate call succeeded:
\* an ask whose generate call failed upserts nothing, and the fallback text is
\* never the answer of a stored entry.
C2_NoUpsertAfterFailedGenerate ==
    /\ \A p \in Procs : Called(p, "generate", FALSE) => ~ Called(p, "upsert", TRUE)
    /\ \A i \in DOMAIN index : index[i].metadata.answer # FallbackAnswer

\* C3: when generate fails in an ask that missed, the caller still gets a well
\* formed result: source llm, the fallback text, no similarity, no matched
\* question.
C3_GenerateFailureGivesFallback ==
    \A p \in Procs :
        (Ended(p) /\ Called(p, "generate", FALSE) /\ ~ Called(p, "upsert", FALSE)) =>
            /\ result[p].kind = "ok"
            /\ result[p].source = "llm"
            /\ result[p].answer = FallbackAnswer
            /\ result[p].similarity = Null
            /\ result[p].matched_question = NoneQ

C5_MissThenHit ==
    \A p \in Procs :
        (/\ prev[p].question = question[p]
         /\ prev[p].source = "llm"
         /\ result[p].kind = "ok") =>
            /\ result[p].source = "cache"
            /\ result[p].similarity = SelfScore
            /\ result[p].matched_question = question[p]
            /\ Len(match[p]) = 1
            /\ \/ match[p][1].id = prev[p].written
               \/ \E i \in DOMAIN index \ {prev[p].written} :
                     index[i].metadata.question = question[p]

\* C5 witness: a second ask of the same question was answered from the cache
C5_Witness ==
    \E p \in Procs :
        /\ prev[p].question = question[p]
        /\ prev[p].source = "llm"
        /\ result[p].source = "cache"
        /\ match[p][1].id = prev[p].written

\* the question of p's previous ask scores above the threshold against the
\* question of p's ask in progress
PrevSimilar(p) ==
    /\ prev[p].question \in Questions
    /\ Cosine(get_embedding(prev[p].question), Embedded(p)) > SimilarityThreshold

\* C6 as stated: Q1 then a different Q2 asked in sequence by one caller (the ask of Q1
\* having returned a result), the two scoring above the threshold, and no
\* stored entry of another question scoring higher against Q2 than Q1 does:
\* the ask of Q2 returns source cache with matched question Q1.
C6_SimilarPairHits_AsStated ==
    [][\A p \in Procs :
         (/\ SearchStep(p)
          /\ PrevSimilar(p)
          /\ prev[p].question # question[p]
          /\ prev[p].source \in {"cache", "llm"}
          /\ \A i \in DOMAIN index :
                index[i].metadata.question # prev[p].question =>
                   Cosine(index[i].values, Embedded(p))
                      <= Cosine(get_embedding(prev[p].question), Embedded(p))) =>
            /\ result'[p].source = "cache"
            /\ result'[p].matched_question = prev[p].question]_vars

\* C6 amended: Q1 then Q2 asked in sequence by one caller, the two scoring
\* above the threshold, the ask of Q1 having returned source llm (it missed
\* and stored Q1), and every entry of another question stored when Q2 is
\* searched scoring strictly lower against Q2 than Q1 does: the ask of Q2
\* returns source cache with matched question Q1.
C6_SimilarPairHits ==
    [][\A p \in Procs :
         (/\ SearchStep(p)
          /\ PrevSimilar(p)
          /\ prev[p].source = "llm"
          /\ \A i \in DOMAIN index :
                index[i].metadata.question # prev[p].question =>
                   Cosine(index[i].values, Embedded(p))
                      < Cosine(get_embedding(prev[p].question), Embedded(p))) =>
            /\ result'[p].source = "cache"
            /\ result'[p].matched_question = prev[p].question
            /\ result'[p].similarity =
                  Cosine(get_embedding(prev[p].question), Embedded(p))]_vars

\* C6 witness: Q2 was answered from the entry of a different question Q1 that
\* the caller's previous ask stored, a lower scoring entry being present too
C6_Witness ==
    \E p \in Procs :
        /\ prev[p].question \in Questions \ {question[p]}
        /\ prev[p].source = "llm"
        /\ result[p].source = "cache"
        /\ result[p].matched_question = prev[p].question
        /\ Cardinality(DOMAIN index) = 2
        /\ nAsks = 3
        /\ \A q \in Procs \ {p} : question[q] = NoneQ

\* C7: an ask that is a cache hit mutates nothing: its own steps leave the
\* index as it was, and its only collaborator calls are embed and search
\* (neither generate nor upsert is invoked).
C7_HitMutatesNothing ==
    [][\A p \in Procs :
         /\ (pc[p] = "idle" /\ pc'[p] = "search") => index' = index
         /\ (SearchStep(p) /\ result'[p].source = "cache") =>
               /\ index' = index
               /\ calls'[p] = <<Call("embed", TRUE), Call("search", TRUE)>>
               /\ written'[p] = NoId
               /\ pc'[p] = "idle"]_vars

\* C7 witness: an ask has been answered from the cache
C7_Witness ==
    \E p \in Procs :
        /\ result[p].source = "cache"
        /\ pc[p] = "idle"
        /\ DOMAIN index # {}

\* C8 as stated: a stored entry never changes and is never removed, whatever
\* the interleaving of asks.
C8_EntriesImmutable_AsStated ==
    [][\A i \in DOMAIN index : i \in DOMAIN index' /\ index'[i] = index[i]]_vars

\* C8 amended: a stored entry is never removed, and its fields change only
\* when an ask that missed upserts under the entry's own identifier, which
\* overwrites it; an upsert under a new identifier adds a separate entry and
\* leaves every stored entry as it was.
C8_EntriesKeptOverwrittenOnlyById ==
    [][\A i \in DOMAIN index :
         /\ i \in DOMAIN index'
         /\ index'[i] # index[i] =>
               \E p \in Procs :
                  /\ UpsertStep(p)
                  /\ Len(match[p]) = 0
                  /\ i = PyHash(seed[p], question[p])
                  /\ index'[i].metadata.question = question[p]
                  /\ DOMAIN index' = DOMAIN index
         /\ DOMAIN index' # DOMAIN index => index'[i] = index[i]]_vars

\* C8 witness: two asks that missed have upserted under one identifier
C8_Witness ==
    /\ written["app"] # NoId
    /\ written["app"] = written["stream"]
    /\ written["app"] \in DOMAIN index
    /\ nAsks = 2

\* C9: on a cache hit the result carries the stored fields of a highest
\* scoring entry of the index: its answer, its question as matched question,
\* its creation timestamp, and its score as similarity; with several entries
\* above the threshold it is a highest scoring one that is returned.
C9_HitReturnsBestEntry ==
    [][\A p \in Procs :
         (SearchStep(p) /\ result'[p].source = "cache") =>
            \E i \in DOMAIN index :
               /\ \A k \in DOMAIN index :
                     Cosine(index[k].values, Embedded(p))
                        <= Cosine(index[i].values, Embedded(p))
               /\ match'[p][1].id = i
               /\ result'[p].answer = index[i].metadata.answer
               /\ result'[p].matched_question = index[i].metadata.question
               /\ result'[p].timestamp = index[i].metadata.timestamp
               /\ result'[p].similarity = Cosine(index[i].values, Embedded(p))]_vars

\* C9 witness: the third ask of one caller hit while two entries of different
\* questions, both above the threshold, were stored
C9_Witness ==
    /\ question["app"] = NoneQ
    /\ nAsks = 3
    /\ question["stream"] = "Q2"
    /\ result["stream"].source = "cache"
    /\ result["stream"].similarity = 91
    /\ Cardinality(DOMAIN index) = 2
    /\ \A i \in DOMAIN index :
          Cosine(index[i].values, Embedded("stream")) > SimilarityThreshold

\* C10: every result an ask returns has source cache or llm, and similarity
\* and matched question are filled in exactly when the source is cache.
C10_DetailsOnlyFromCache ==
    \A p \in Procs :
        result[p].kind = "ok" =>
            /\ result[p].source \in {"cache", "llm"}
            /\ (result[p].source = "cache") <=> (result[p].similarity # Null)
            /\ (result[p].source = "cache") <=> (result[p].matched_question # NoneQ)
            /\ result[p].source = "cache" =>
                  /\ result[p].similarity \in 0 .. SelfScore
                  /\ result[p].matched_question \in Questions

\* C10 witness: one caller got a result from the llm, another from the cache
C10_Witness ==
    /\ result["app"].source = "llm"
    /\ result["stream"].source = "cache"

\* C11: the identifier of an upsert is a function of the question text alone:
\* two upserts of one text, also by different processes or after a restart,
\* use one identifier, so no two stored entries hold the same question.
C11_IdentifierOfTextAlone ==
    /\ \A i, j \in DOMAIN index :
          index[i].metadata.question = index[j].metadata.question => i = j
    /\ \A p, q \in Procs :
          (written[p] # NoId /\ written[q] # NoId /\ question[p] = question[q]) =>
             written[p] = written[q]

\* C12: when the upsert fails after generate succeeded, the ask still returns
\* the generated answer with source llm.
C12_UpsertFailureStillAnswers ==
    \A p \in Procs :
        (Ended(p) /\ Called(p, "generate", TRUE) /\ Called(p, "upsert", FALSE)) =>
            /\ result[p].kind = "ok"
            /\ result[p].source = "llm"
            /\ result[p].answer = llm_invoke(question[p])

\* C13: when the search fails the ask ends as a failure: it is not taken for a
\* miss, generate is not invoked, nothing is upserted and the step leaves the
\* index as it was.
C13_SearchFailureFailsAsk ==
    [][\A p \in Procs :
         /\ (pc[p] = "search" /\ CalledAfter(p, "search", FALSE)) =>
               /\ result'[p].kind = "error"
               /\ pc'[p] \in {"idle", "down"}
               /\ index' = index
               /\ written'[p] = NoId
         /\ Called(p, "search", FALSE) =>
               /\ calls[p] = <<Call("embed", TRUE), Call("search", FALSE)>>
               /\ result[p].kind = "error"
               /\ written[p] = NoId]_vars

\* C13 witness: a search against a non-empty index failed and the ask ended
C13_Witness ==
    \E p \in Procs :
        /\ Called(p, "search", FALSE)
        /\ result[p].kind = "error"
        /\ DOMAIN index # {}

\* the last asks of app.py and stream.py were about one question and both
\* returned source llm: each searched before the other's upsert
BothMissed ==
    /\ question["app"] \in Questions
    /\ question["app"] = question["stream"]
    /\ result["app"].source = "llm"
    /\ result["stream"].source = "llm"

EntriesOf(q) == {i \in DOMAIN index : index[i].metadata.question = q}

Ops(p) == [k \in DOMAIN calls[p] |-> calls[p][k].op]

CallOrder == <<"embed", "search", "generate", "upsert">>

\* C15: within one ask the collaborators are called in the order embed,
\* search, generate, upsert, each at most once (no retry); generate and upsert
\* are called only after a search that missed, upsert only after generate has
\* come back, and a hit calls embed and search alone.
C15_CallsInFixedOrderOnce ==
    \A p \in Procs :
        /\ Len(calls[p]) <= Len(CallOrder)
        /\ Ops(p) = SubSeq(CallOrder, 1, Len(calls[p]))
        /\ Len(calls[p]) >= 2 => calls[p][1].ok
        /\ Len(calls[p]) >= 3 => calls[p][2].ok /\ Len(match[p]) = 0
        /\ Len(calls[p]) = 4 => pc[p] \notin {"search", "generate", "cache"}
        /\ result[p].source = "cache" => Len(calls[p]) = 2
        /\ result[p].source = "llm" => Len(calls[p]) = 4 /\ calls[p][4].ok

\* C15 witness: an ask that missed has made all four calls, after an ask by
\* the same caller
C15_Witness ==
    \E p \in Procs :
        /\ Len(calls[p]) = 4
        /\ result[p].source = "llm"
        /\ prev[p].question # NoneQ

C18_CreateOnlyWhenAbsent ==
    [][/\ \A p \in Procs :
            (pc[p] = "init" /\ pc'[p] # "init" /\ ~ sawIndex[p]) => ~ indexExists
       /\ creates' <= 1
       /\ \A p \in Procs :
            (pc[p] \in {"idle", "search", "generate", "cache"} /\ pc'[p] # pc[p]) =>
               (indexExists' = indexExists /\ creates' = creates)]_vars

\* a well formed assistant message: the answer with its details, the hit
\* fields in the details exactly for source cache, or an error text without
\* details
AssistantOk(m) ==
    /\ m.role = "assistant"
    /\ IF "details" \in DOMAIN m
       THEN /\ m.details.source \in {"cache", "llm"}
            /\ DOMAIN m.details =
                  IF m.details.source = "cache"
                  THEN {"source", "timestamp", "similarity", "matched_question"}
                  ELSE {"source", "timestamp"}
            /\ m.content \notin {KeyErrorText, ConnectionErrorText}
       ELSE /\ DOMAIN m = {"role", "content"}
            /\ m.content \in {KeyErrorText, ConnectionErrorText}

TranscriptOk(ms) ==
    \A k \in DOMAIN ms :
        IF k % 2 = 1
        THEN ms[k].role = "user" /\ DOMAIN ms[k] = {"role", "content"}
        ELSE AssistantOk(ms[k])

\* C17: the transcript is append-only; every submitted prompt adds one user
\* message and then one assistant message, so roles alternate user, assistant;
\* on a successful response the assistant message holds the answer and the
\* details (source, timestamp, and similarity and matched_question only for
\* source cache), on any failure it holds the error text and no details.
C17_TranscriptAlternates ==
    [][/\ Len(messages') >= Len(messages)
       /\ SubSeq(messages', 1, Len(messages)) = messages
       /\ TranscriptOk(messages')
       /\ Len(messages') % 2 = (IF fe' = "posted" THEN 1 ELSE 0)
       /\ (fe = "ready" /\ fe' = "posted") =>
             messages' = Append(messages, UserMessage(prompt'))
       /\ (fe = "posted" /\ fe' = "ready") =>
             /\ Len(messages') = Len(messages) + 1
             /\ LET m == messages'[Len(messages')] IN
                IF nAsks = asked + 1 /\ result["stream"].kind = "ok"
                THEN /\ m.content = result["stream"].answer
                     /\ "details" \in DOMAIN m
                     /\ m.details.source = result["stream"].source
                     /\ m.details.timestamp = result["stream"].timestamp
                     /\ m.details.source = "cache" =>
                           /\ m.details.similarity = result["stream"].similarity
                           /\ m.details.matched_question =
                                 result["stream"].matched_question
                ELSE "details" \notin DOMAIN m
       /\ (fe' = fe) => messages' = messages]_vars

\* C17 witness: a transcript of three prompts answered from the llm, from the
\* cache and by an error
C17_Witness ==
    /\ Len(messages) = 6
    /\ fe = "ready"
    /\ \E i, j, k \in {2, 4, 6} :
          /\ "details" \in DOMAIN messages[i] /\ "details" \in DOMAIN messages[j]
          /\ messages[i].details.source = "llm"
          /\ messages[j].details.source = "cache"
          /\ "details" \notin DOMAIN messages[k]

\* C19: the value of the Similarity Threshold slider is the threshold of the
\* hit decision for the questions sent from the frontend: the ask is answered
\* from the cache exactly when the best score exceeds the slider's value.
C19_SliderSetsThreshold ==
    [][(fe = "posted" /\ SearchStep("stream")) =>
          ((result'["stream"].source = "cache") <=>
              (/\ DOMAIN index # {}
               /\ TopScore(index, Embedded("stream")) > similarity_threshold))]_vars

\* handler r is inside ask_question
InFlight(r) == pc[r] \in {"search", "generate", "cache"}

\* the last ask handled by r searched and missed
Missed(r) == Called(r, "search", TRUE) /\ Len(match[r]) = 0

\* the requests of one server process are serialized: at most one handler is
\* inside ask_question, and no other handler calls a collaborator between a
\* handler's search and its upsert
Serialized ==
    /\ \A r, o \in Requests : (InFlight(r)' /\ InFlight(o)') => r = o
    /\ \A r, o \in Requests :
          (o # r /\ pc[r] \in {"generate", "cache"}) => calls'[o] = calls[o]

\* C20 as stated: the requests of one server process are serialized, and two
\* requests for the same question in one process never both miss.
C20_SerializedNeverBothMiss_AsStated ==
    [][/\ Serialized
       /\ \A r, o \in Requests :
             (r # o /\ question'[r] = question'[o] /\ question'[r] \in Questions) =>
                ~ (Missed(r)' /\ Missed(o)')]_vars

\* C20 amended: the requests of one server process are serialized, and two
\* requests for the same question in one process both miss only when one of
\* them failed (its generate or upsert raised, so that nothing was stored),
\* never by interleaving: they never both return source llm.
C20_SerializedBothMissOnlyAfterFailure ==
    [][/\ Serialized
       /\ \A r, o \in Requests :
             (r # o /\ question'[r] = question'[o] /\ question'[r] \in Questions
                /\ Missed(r)' /\ Missed(o)') =>
                /\ result'[r].kind = "error" \/ result'[o].kind = "error"
                /\ ~ (result'[r].source = "llm" /\ result'[o].source = "llm")]_vars

\* C20 witness: a request was answered from the entry that the request handled
\* before it, for the same question, had stored
C20_Witness ==
    /\ question["r1"] = question["r2"]
    /\ result["r1"].source = "llm"
    /\ result["r2"].source = "cache"
    /\ Len(match["r2"]) = 1
    /\ match["r2"][1].id = written["r1"]
====
